---- MODULE Spec2Model ----
(***************************************************************************)
(* A model of translator.py: the placeholder extraction / line translation *)
(* / restoration pipeline (process_file), the translation adapter          *)
(* (translate_text_fragment) and the per-file loop (main).                 *)
(*                                                                         *)
(* A text is a sequence of one-character strings.  Regular expressions of  *)
(* the source are modelled by operators that give, for a text s and a      *)
(* start position p, the position of the last character of the match that  *)
(* Python's re finds at p, or 0 when there is none.  The backslash is not  *)
(* a character of the modelled documents.                                  *)
(***************************************************************************)
EXTENDS Integers, Sequences, FiniteSets, TLC

VARIABLES
    \* process_file
    doc,            \* the argument of process_file, kept for reference
    backend,        \* how GoogleTranslator.translate behaves during the run
    pc,             \* position in process_file
    content,        \* local variable content
    callouts,       \* local variable callouts
    code_blocks,    \* local variable code_blocks
    md_links,       \* local variable md_links
    inline_codes,   \* local variable inline_codes
    footnote_refs,  \* local variable footnote_refs
    yaml,           \* local variable yaml (<<>> stands for None)
    lines,          \* local variable lines
    i,              \* index of the line loop (1-based)
    calls,          \* the texts translate_text_fragment was called with, in order
    skipped,        \* the lines the loop left alone (continue at line 214-216)
    extracted,      \* the fragment kinds in the order their extraction stage ran
    restored,       \* the fragment kinds in the order their restoration stage ran
    \* translate_text_fragment, step by step
    a_pc, a_text, a_translated, a_ret, a_backend_calls, a_sleeps, a_raised,
    \* main
    m_pc, files, file_index, attempted, created, written, reported, completed

pvars == <<doc, backend, pc, content, callouts, code_blocks, md_links, inline_codes,
           footnote_refs, yaml, lines, i, calls, skipped, extracted, restored>>
avars == <<a_pc, a_text, a_translated, a_ret, a_backend_calls, a_sleeps, a_raised>>
mvars == <<m_pc, files, file_index, attempted, created, written, reported, completed>>
vars == <<pvars, avars, mvars>>

----------------------------------------------------------------------------
(* Characters and str methods *)

LowerLetters == <<"a","b","c","d","e","f","g","h","i","j","k","l","m",
                  "n","o","p","q","r","s","t","u","v","w","x","y","z">>
UpperLetters == <<"A","B","C","D","E","F","G","H","I","J","K","L","M",
                  "N","O","P","Q","R","S","T","U","V","W","X","Y","Z">>
Digits == <<"0","1","2","3","4","5","6","7","8","9">>

Lower(c) ==
    IF \E k \in 1..26 : UpperLetters[k] = c
    THEN LowerLetters[CHOOSE k \in 1..26 : UpperLetters[k] = c]
    ELSE c

Upper(c) ==
    IF \E k \in 1..26 : LowerLetters[k] = c
    THEN UpperLetters[CHOOSE k \in 1..26 : LowerLetters[k] = c]
    ELSE c

\* the backtick, which cannot be written in a string of this language
BT == "'"

IsDigit(c) == \E k \in 1..10 : Digits[k] = c

\* str(idx) for the indices the model reaches
Str(n) == IF n < 10 THEN <<Digits[n + 1]>> ELSE <<Digits[(n \div 10) + 1], Digits[(n % 10) + 1]>>

\* \s of re and the whitespace of str.strip
IsSpace(c) == c \in {" ", "\n"}

StartsWithAt(s, p, pat) ==
    /\ p >= 1
    /\ p + Len(pat) - 1 <= Len(s)
    /\ SubSeq(s, p, p + Len(pat) - 1) = pat

StartsWith(s, pat) == StartsWithAt(s, 1, pat)
EndsWith(s, pat) == StartsWithAt(s, Len(s) - Len(pat) + 1, pat)

RECURSIVE IndexFrom(_, _, _)
\* the first position q >= p where pat occurs in s, or 0
IndexFrom(s, pat, p) ==
    IF p + Len(pat) - 1 > Len(s) THEN 0
    ELSE IF StartsWithAt(s, p, pat) THEN p
    ELSE IndexFrom(s, pat, p + 1)

Contains(s, pat) == IndexFrom(s, pat, 1) > 0

RECURSIVE SkipSpaces(_, _)
\* the first position q >= p that holds no whitespace (Len(s) + 1 at the end)
SkipSpaces(s, p) ==
    IF p <= Len(s) /\ IsSpace(s[p]) THEN SkipSpaces(s, p + 1) ELSE p

RECURSIVE SkipSpacesBack(_, _)
SkipSpacesBack(s, p) ==
    IF p >= 1 /\ IsSpace(s[p]) THEN SkipSpacesBack(s, p - 1) ELSE p

LStrip(s) == SubSeq(s, SkipSpaces(s, 1), Len(s))
Strip(s) == SubSeq(s, SkipSpaces(s, 1), SkipSpacesBack(s, Len(s)))

RECURSIVE ReplaceFrom(_, _, _, _)
ReplaceFrom(s, pat, rep, p) ==
    LET q == IndexFrom(s, pat, p) IN
    IF q = 0 THEN SubSeq(s, p, Len(s))
    ELSE SubSeq(s, p, q - 1) \o rep \o ReplaceFrom(s, pat, rep, q + Len(pat))

\* s.replace(pat, rep), pat not empty
Replace(s, pat, rep) == ReplaceFrom(s, pat, rep, 1)

RECURSIVE SplitFrom(_, _)
SplitFrom(s, p) ==
    LET q == IndexFrom(s, <<"\n">>, p) IN
    IF q = 0 THEN <<SubSeq(s, p, Len(s))>>
    ELSE <<SubSeq(s, p, q - 1)>> \o SplitFrom(s, q + 1)

\* s.split('\n')
Split(s) == SplitFrom(s, 1)

RECURSIVE Join(_)
\* '\n'.join(ls)
Join(ls) ==
    IF Len(ls) = 0 THEN <<>>
    ELSE IF Len(ls) = 1 THEN ls[1]
    ELSE ls[1] \o <<"\n">> \o Join(Tail(ls))

RECURSIVE MapChars(_, _)
MapChars(s, up) ==
    IF s = <<>> THEN <<>>
    ELSE <<IF up THEN Upper(s[1]) ELSE Lower(s[1])>> \o MapChars(Tail(s), up)

RECURSIVE Reverse(_)
Reverse(s) == IF s = <<>> THEN <<>> ELSE Reverse(Tail(s)) \o <<s[1]>>

----------------------------------------------------------------------------
(* Placeholder tokens *)

KindName(kind) ==
    CASE kind = "CALLOUT" -> <<"C","A","L","L","O","U","T">>
      [] kind = "CODEBLOCK" -> <<"C","O","D","E","B","L","O","C","K">>
      [] kind = "MDLINK" -> <<"M","D","L","I","N","K">>
      [] kind = "INLINECODE" -> <<"I","N","L","I","N","E","C","O","D","E">>
      [] kind = "FOOTNOTE_REF" -> <<"F","O","O","T","N","O","T","E","_","R","E","F">>
      [] kind = "YAML" -> <<"Y","A","M","L">>

Open == <<"<", "<">>
Close == <<">", ">">>

\* f"<<KIND_{idx}>>"
Placeholder(kind, idx) == Open \o KindName(kind) \o <<"_">> \o Str(idx) \o Close

\* "<<YAML>>"
YamlPlaceholder == Open \o KindName("YAML") \o Close

----------------------------------------------------------------------------
(* The regular expressions.  XEnd(s, p) is the position of the last        *)
(* character of the match starting at p, or 0.                             *)

RECURSIVE NextChar(_, _, _)
\* the first position q >= p with s[q] = c, or 0
NextChar(s, c, p) ==
    IF p > Len(s) THEN 0
    ELSE IF s[p] = c THEN p
    ELSE NextChar(s, c, p + 1)

\* :::\s*\{[^\}]+\}[\s\S]*?(?=\n:::)\n:::
CalloutEnd(s, p) ==
    IF ~StartsWithAt(s, p, <<":", ":", ":">>) THEN 0
    ELSE LET b == SkipSpaces(s, p + 3) IN
         IF ~StartsWithAt(s, b, <<"{">>) THEN 0
         ELSE LET c == NextChar(s, "}", b + 1) IN
              IF c < b + 2 THEN 0
              ELSE LET d == IndexFrom(s, <<"\n", ":", ":", ":">>, c + 1) IN
                   IF d = 0 THEN 0 ELSE d + 3

\* BT BT BT [\s\S]*? BT BT BT
CodeBlockEnd(s, p) ==
    IF ~StartsWithAt(s, p, <<BT, BT, BT>>) THEN 0
    ELSE LET d == IndexFrom(s, <<BT, BT, BT>>, p + 3) IN
         IF d = 0 THEN 0 ELSE d + 2

RECURSIVE CloseParen(_, _)
\* (.*?)\) from k: the first ")" with no line break before it, or 0
CloseParen(s, k) ==
    IF k > Len(s) THEN 0
    ELSE IF s[k] = ")" THEN k
    ELSE IF s[k] = "\n" THEN 0
    ELSE CloseParen(s, k + 1)

RECURSIVE CloseBracket(_, _)
\* (.*?)\]\((.*?)\) from j: the first "](" on the line after which the rest matches, or 0
CloseBracket(s, j) ==
    IF j > Len(s) THEN 0
    ELSE IF StartsWithAt(s, j, <<"]", "(">>) /\ CloseParen(s, j + 2) > 0 THEN j
    ELSE IF s[j] = "\n" THEN 0
    ELSE CloseBracket(s, j + 1)

\* \[(.*?)\]\((.*?)\)
LinkEnd(s, p) ==
    IF ~StartsWithAt(s, p, <<"[">>) THEN 0
    ELSE LET j == CloseBracket(s, p + 1) IN
         IF j = 0 THEN 0 ELSE CloseParen(s, j + 2)

\* !\[(.*?)\]\((.*?)\)
ImageEnd(s, p) ==
    IF ~StartsWithAt(s, p, <<"!">>) THEN 0 ELSE LinkEnd(s, p + 1)

\* BT [^ BT ]+ BT
InlineCodeEnd(s, p) ==
    IF ~StartsWithAt(s, p, <<BT>>) THEN 0
    ELSE LET q == NextChar(s, BT, p + 1) IN
         IF q < p + 2 THEN 0 ELSE q

\* \[\^[^\]]+\]
FootnoteEnd(s, p) ==
    IF ~StartsWithAt(s, p, <<"[", "^">>) THEN 0
    ELSE LET q == NextChar(s, "]", p + 2) IN
         IF q < p + 3 THEN 0 ELSE q

\* \*\*([^\*]+?)\*\*   and, the same spans,   \*\*\s*([^\*]+?)\s*\*\*
BoldEnd(s, p) ==
    IF ~StartsWithAt(s, p, <<"*", "*">>) THEN 0
    ELSE LET q == NextChar(s, "*", p + 2) IN
         IF q < p + 3 THEN 0
         ELSE IF StartsWithAt(s, q, <<"*", "*">>) THEN q + 1 ELSE 0

\* (?<!\*)\*([^\*]+?)\*(?!\*)   and, the same spans,   (?<!\*)\*\s*([^\*]+?)\s*\*(?!\*)
ItalicEnd(s, p) ==
    IF ~StartsWithAt(s, p, <<"*">>) THEN 0
    ELSE IF p > 1 /\ s[p - 1] = "*" THEN 0
    ELSE LET q == NextChar(s, "*", p + 1) IN
         IF q < p + 2 THEN 0
         ELSE IF q < Len(s) /\ s[q + 1] = "*" THEN 0
         ELSE q

MatchEnd(re, s, p) ==
    CASE re = "callout" -> CalloutEnd(s, p)
      [] re = "codeblock" -> CodeBlockEnd(s, p)
      [] re = "image" -> ImageEnd(s, p)
      [] re = "link" -> LinkEnd(s, p)
      [] re = "inlinecode" -> InlineCodeEnd(s, p)
      [] re = "footnote" -> FootnoteEnd(s, p)
      [] re = "bold" -> BoldEnd(s, p)
      [] re = "italic" -> ItalicEnd(s, p)

RECURSIVE FindFrom(_, _, _)
FindFrom(re, s, p) ==
    IF p > Len(s) THEN <<>>
    ELSE LET e == MatchEnd(re, s, p) IN
         IF e > 0 THEN <<<<p, e>>>> \o FindFrom(re, s, e + 1)
         ELSE FindFrom(re, s, p + 1)

\* the spans <<first, last>> re.sub visits: leftmost, not overlapping
FindAll(re, s) == FindFrom(re, s, 1)

RECURSIVE SubFrom(_, _, _, _, _)
SubFrom(s, spans, reps, k, p) ==
    IF k > Len(spans) THEN SubSeq(s, p, Len(s))
    ELSE SubSeq(s, p, spans[k][1] - 1) \o reps[k]
         \o SubFrom(s, spans, reps, k + 1, spans[k][2] + 1)

\* re.sub: s with span k replaced by reps[k]
Sub(s, spans, reps) == SubFrom(s, spans, reps, 1, 1)

Span(s, sp) == SubSeq(s, sp[1], sp[2])

----------------------------------------------------------------------------
(* translate_text_fragment, as process_file sees it *)

Backends == {"identity", "raise", "upper", "lower", "pad"}

\* GoogleTranslator(...).translate(text): an arbitrary text-to-text function, here
\* one of: the identity, upper-casing, lower-casing, and padding the << and >> of
\* every token with a space
Translate(text) ==
    CASE backend = "upper" -> MapChars(text, TRUE)
      [] backend = "lower" -> MapChars(text, FALSE)
      [] backend = "pad" -> Replace(Replace(text, Open, Open \o <<" ">>), Close, <<" ">> \o Close)
      [] OTHER -> text

translate_text_fragment(text) ==
    IF Strip(text) = <<>> THEN text
    ELSE IF backend = "raise" THEN text
    ELSE LET translated == Translate(text) IN
         IF translated # <<>> THEN translated ELSE text

Stars == <<"*", "*">>
Star == <<"*">>

\* match.group(1) of the bold and italic expressions
BoldGroup(s, sp) == SubSeq(s, sp[1] + 2, sp[2] - 2)
ItalicGroup(s, sp) == SubSeq(s, sp[1] + 1, sp[2] - 1)

BoldGroups(s, spans) == [k \in 1..Len(spans) |-> BoldGroup(s, spans[k])]
ItalicGroups(s, spans) == [k \in 1..Len(spans) |-> ItalicGroup(s, spans[k])]

\* re.sub(bold pattern, bold_repl, text), spans the matches
BoldSub(text, spans) ==
    Sub(text, spans, [k \in 1..Len(spans) |->
                        Stars \o translate_text_fragment(BoldGroup(text, spans[k])) \o Stars])

\* re.sub(italic pattern, italic_repl, text), spans the matches
ItalicSub(text, spans) ==
    Sub(text, spans, [k \in 1..Len(spans) |->
                        Star \o translate_text_fragment(ItalicGroup(text, spans[k])) \o Star])

\* Then process italic: t1 is the text after the bold pass, given calls
ItalicPass(t1, spans, given) ==
    [text |-> ItalicSub(t1, spans), calls |-> given \o ItalicGroups(t1, spans)]

\* Process bold first
BoldPass(text, spans) ==
    [text |-> BoldSub(text, spans), calls |-> BoldGroups(text, spans)]

ItalicAfter(b) == ItalicPass(b.text, FindAll("italic", b.text), b.calls)

\* the text returned, and the texts handed to translate_text_fragment on the way
translate_bold_italic(text) == ItalicAfter(BoldPass(text, FindAll("bold", text)))

\* group 1 of \s*([^\*]+?)\s* over the text c between two emphasis markers
SpacingGroup(c) == IF Strip(c) = <<>> THEN <<c[Len(c)]>> ELSE Strip(c)

\* re.sub(r'\*\*\s*([^\*]+?)\s*\*\*', r'**\1**', text), spans the matches
BoldSpacing(text, spans) ==
    Sub(text, spans, [k \in 1..Len(spans) |->
                        Stars \o SpacingGroup(BoldGroup(text, spans[k])) \o Stars])

\* re.sub(r'(?<!\*)\*\s*([^\*]+?)\s*\*(?!\*)', r'*\1*', text), spans the matches
ItalicSpacing(text, spans) ==
    Sub(text, spans, [k \in 1..Len(spans) |->
                        Star \o SpacingGroup(ItalicGroup(text, spans[k])) \o Star])

ItalicSpacingOf(t1) == ItalicSpacing(t1, FindAll("italic", t1))

fix_markdown_spacing(text) == ItalicSpacingOf(BoldSpacing(text, FindAll("bold", text)))

----------------------------------------------------------------------------
(* Extraction *)

\* re.sub(pattern, repl, text) with a repl that appends match.group(0) to a list
\* of n entries and returns the placeholder of its index
Extract(re, kind, text, n) ==
    LET spans == FindAll(re, text) IN
    [text |-> Sub(text, spans, [k \in 1..Len(spans) |-> Placeholder(kind, n + k - 1)]),
     frags |-> [k \in 1..Len(spans) |-> Span(text, spans[k])]]

extract_callout_blocks(text) == Extract("callout", "CALLOUT", text, 0)

\* the code_repl substitution of process_file
extract_code_blocks(text) == Extract("codeblock", "CODEBLOCK", text, 0)

\* the record image_repl / link_repl appends for the link that starts at p
LinkRecord(type, s, p) ==
    LET j == CloseBracket(s, p + 1) IN
    [type |-> type, text |-> SubSeq(s, p + 1, j - 1), url |-> SubSeq(s, j + 2, CloseParen(s, j + 2) - 1)]

extract_md_images_and_links(text) ==
    LET im == FindAll("image", text)
        images == [k \in 1..Len(im) |-> LinkRecord("image", text, im[k][1] + 1)]
        t1 == Sub(text, im, [k \in 1..Len(im) |-> Placeholder("MDLINK", k - 1)])
        ln == FindAll("link", t1)
        links == [k \in 1..Len(ln) |-> LinkRecord("link", t1, ln[k][1])]
        t2 == Sub(t1, ln, [k \in 1..Len(ln) |-> Placeholder("MDLINK", Len(im) + k - 1)])
    IN [text |-> t2, frags |-> images \o links]

extract_inline_code(text) == Extract("inlinecode", "INLINECODE", text, 0)

\* pos < len(text) and text[pos:].lstrip().startswith(':'), pos the end of the match
IsDefinitionMarker(text, sp) ==
    sp[2] < Len(text) /\ StartsWith(LStrip(SubSeq(text, sp[2] + 1, Len(text))), <<":">>)

extract_footnote_refs(text) ==
    LET all == FindAll("footnote", text)
        spans == SelectSeq(all, LAMBDA sp : ~IsDefinitionMarker(text, sp))
    IN [text |-> Sub(text, spans, [k \in 1..Len(spans) |-> Placeholder("FOOTNOTE_REF", k - 1)]),
        frags |-> [k \in 1..Len(spans) |-> Span(text, spans[k])]]

\* re.match(r'^---[\s\S]*?---', content): the matched text, or <<>> for None
yaml_match(text) ==
    IF ~StartsWith(text, <<"-", "-", "-">>) THEN <<>>
    ELSE LET d == IndexFrom(text, <<"-", "-", "-">>, 4) IN
         IF d = 0 THEN <<>> ELSE SubSeq(text, 1, d + 2)

----------------------------------------------------------------------------
(* Restoration *)

RECURSIVE RestoreExact(_, _, _, _)
\* for idx, block in enumerate(frags): text = text.replace(f"<<KIND_{idx}>>", block)
RestoreExact(kind, text, frags, k) ==
    IF k > Len(frags) THEN text
    ELSE RestoreExact(kind, Replace(text, Placeholder(kind, k - 1), frags[k]), frags, k + 1)

restore_footnote_refs(text, refs) == RestoreExact("FOOTNOTE_REF", text, refs, 1)

\* KIND_idx
TokenName(kind, idx) == KindName(kind) \o <<"_">> \o Str(idx)

\* <<\s*token\s*>> with re.IGNORECASE
TolerantEnd(token, s, p) ==
    LET name == MapChars(token, FALSE) IN
    IF ~StartsWithAt(s, p, Open) THEN 0
    ELSE LET b == SkipSpaces(s, p + 2) IN
         IF b + Len(name) - 1 > Len(s) THEN 0
         ELSE IF MapChars(SubSeq(s, b, b + Len(name) - 1), FALSE) # name THEN 0
         ELSE LET c == SkipSpaces(s, b + Len(name)) IN
              IF StartsWithAt(s, c, Close) THEN c + 1 ELSE 0

RECURSIVE TolerantSub(_, _, _, _)
\* re.sub of that pattern by rep, from position p on
TolerantSub(token, s, rep, p) ==
    IF p > Len(s) THEN <<>>
    ELSE LET e == TolerantEnd(token, s, p) IN
         IF e > 0 THEN rep \o TolerantSub(token, s, rep, e + 1)
         ELSE <<s[p]>> \o TolerantSub(token, s, rep, p + 1)

RECURSIVE RestoreInlineFrom(_, _, _)
RestoreInlineFrom(text, inline, k) ==
    IF k > Len(inline) THEN text
    ELSE RestoreInlineFrom(TolerantSub(TokenName("INLINECODE", k - 1), text, inline[k], 1), inline, k + 1)

restore_inline_code(text, inline) == RestoreInlineFrom(text, inline, 1)

\* f"![{translated_alt}]({url})" or f"[{translated_text}]({url})"
Markdown(link) ==
    (IF link.type = "image" THEN <<"!">> ELSE <<>>)
    \o <<"[">> \o translate_text_fragment(link.text) \o <<"]", "(">> \o link.url \o <<")">>

RECURSIVE RestoreLinksFrom(_, _, _)
RestoreLinksFrom(text, links, k) ==
    IF k > Len(links) THEN text
    ELSE RestoreLinksFrom(TolerantSub(TokenName("MDLINK", k - 1), text, Markdown(links[k]), 1), links, k + 1)

\* the text returned, and the texts handed to translate_text_fragment on the way
restore_md_images_and_links(text, links) ==
    [text |-> RestoreLinksFrom(text, links, 1),
     calls |-> [k \in 1..Len(links) |-> links[k].text]]

----------------------------------------------------------------------------
(* The documents process_file is given *)

MaxChunks == 3

\* pieces of Markdown a document is made of: plain characters, markers, and the
\* examples of the specification
Chunks == <<
    <<"x">>,
    <<" ">>,
    <<"\n">>,
    <<":">>,
    <<"*", "*">>,
    <<BT>>,
    <<BT, BT, BT>>,
    <<"[", "^", "a", "]">>,
    <<"[", "a", "]", "(", "u", ")">>,
    <<"!", "[", "a", "]", "(", "u", ")">>,
    <<":", ":", ":", "{", "n", "}">>,
    <<"\n", ":", ":", ":">>,
    <<"-", "-", "-">>,
    <<"*", "*", " ", "a", "*", "*">>,
    <<"*", "*", "b", " ", "*", "i", "*", " ", "t", "*", "*">> >>

RECURSIVE DocsOf(_)
DocsOf(n) ==
    IF n = 0 THEN {<<>>}
    ELSE LET shorter == DocsOf(n - 1) IN
         shorter \cup {d \o Chunks[k] : d \in shorter, k \in 1..Len(Chunks)}

Documents == DocsOf(MaxChunks)

----------------------------------------------------------------------------
(* process_file(content) *)

AdapterIdle ==
    /\ a_pc = "off" /\ a_text = <<>> /\ a_translated = <<>> /\ a_ret = <<>>
    /\ a_backend_calls = 0 /\ a_sleeps = 0 /\ a_raised = FALSE

MainIdle ==
    /\ m_pc = "off" /\ files = <<>> /\ file_index = 0 /\ attempted = <<>>
    /\ created = <<>> /\ written = <<>> /\ reported = <<>> /\ completed = FALSE

Init ==
    /\ doc \in Documents
    /\ backend \in Backends
    /\ pc = "extract_callouts"
    /\ content = doc
    /\ callouts = <<>> /\ code_blocks = <<>> /\ md_links = <<>>
    /\ inline_codes = <<>> /\ footnote_refs = <<>> /\ yaml = <<>>
    /\ lines = <<>> /\ i = 0 /\ calls = <<>> /\ skipped = <<>>
    /\ extracted = <<>> /\ restored = <<>>
    /\ AdapterIdle /\ MainIdle

\* 1. Extract COMPLETE callout blocks first
ExtractCallouts ==
    /\ pc = "extract_callouts"
    /\ LET r == extract_callout_blocks(content) IN
       /\ content' = r.text
       /\ callouts' = r.frags
    /\ extracted' = Append(extracted, "CALLOUT")
    /\ pc' = "extract_code_blocks"
    /\ UNCHANGED <<doc, backend, code_blocks, md_links, inline_codes, footnote_refs,
                   yaml, lines, i, calls, skipped, restored, avars, mvars>>

\* 2. Extract remaining code blocks (not in callouts)
ExtractCodeBlocks ==
    /\ pc = "extract_code_blocks"
    /\ LET r == extract_code_blocks(content) IN
       /\ content' = r.text
       /\ code_blocks' = r.frags
    /\ extracted' = Append(extracted, "CODEBLOCK")
    /\ pc' = "extract_links"
    /\ UNCHANGED <<doc, backend, callouts, md_links, inline_codes, footnote_refs,
                   yaml, lines, i, calls, skipped, restored, avars, mvars>>

\* 3. Extract markdown images and links
ExtractLinks ==
    /\ pc = "extract_links"
    /\ LET r == extract_md_images_and_links(content) IN
       /\ content' = r.text
       /\ md_links' = r.frags
    /\ extracted' = Append(extracted, "MDLINK")
    /\ pc' = "extract_inline_code"
    /\ UNCHANGED <<doc, backend, callouts, code_blocks, inline_codes, footnote_refs,
                   yaml, lines, i, calls, skipped, restored, avars, mvars>>

\* 4. Extract inline code
ExtractInlineCode ==
    /\ pc = "extract_inline_code"
    /\ LET r == extract_inline_code(content) IN
       /\ content' = r.text
       /\ inline_codes' = r.frags
    /\ extracted' = Append(extracted, "INLINECODE")
    /\ pc' = "extract_footnote_refs"
    /\ UNCHANGED <<doc, backend, callouts, code_blocks, md_links, footnote_refs,
                   yaml, lines, i, calls, skipped, restored, avars, mvars>>

\* 5. Extract footnote references (not definitions)
ExtractFootnoteRefs ==
    /\ pc = "extract_footnote_refs"
    /\ LET r == extract_footnote_refs(content) IN
       /\ content' = r.text
       /\ footnote_refs' = r.frags
    /\ extracted' = Append(extracted, "FOOTNOTE_REF")
    /\ pc' = "extract_yaml"
    /\ UNCHANGED <<doc, backend, callouts, code_blocks, md_links, inline_codes,
                   yaml, lines, i, calls, skipped, restored, avars, mvars>>

\* 6. Extract YAML frontmatter, and the split of 7.
ExtractYaml ==
    /\ pc = "extract_yaml"
    /\ LET y == yaml_match(content)
           c == IF y # <<>> THEN Replace(content, y, YamlPlaceholder) ELSE content
       IN /\ yaml' = y
          /\ content' = c
          /\ lines' = Split(c)
    /\ i' = 1
    /\ extracted' = Append(extracted, "YAML")
    /\ pc' = "lines"
    /\ UNCHANGED <<doc, backend, callouts, code_blocks, md_links, inline_codes,
                   footnote_refs, calls, skipped, restored, avars, mvars>>

\* (line.strip().startswith('<<') and line.strip().endswith('>>')) or not line.strip()
IsSkipLine(line) ==
    LET st == Strip(line) IN
    (StartsWith(st, Open) /\ EndsWith(st, Close)) \/ st = <<>>

RECURSIVE SkipDigits(_, _)
SkipDigits(s, p) ==
    IF p <= Len(s) /\ IsDigit(s[p]) THEN SkipDigits(s, p + 1) ELSE p

\* re.match(r'^(\[\^[^\]]+\]:|\<\<FOOTNOTE_REF_\d+\>\>:)(.*)', line): the position of
\* the colon that ends group 1, or 0
FootnoteDefinitionMarker(line) ==
    LET q == FootnoteEnd(line, 1)
        pre == Open \o KindName("FOOTNOTE_REF") \o <<"_">>
        d == SkipDigits(line, Len(pre) + 1)
    IN IF q > 0 /\ StartsWithAt(line, q + 1, <<":">>) THEN q + 1
       ELSE IF StartsWith(line, pre) /\ d > Len(pre) + 1 /\ StartsWithAt(line, d, Close \o <<":">>)
            THEN d + 2
       ELSE 0

\* Skip code, callout, yaml, empty, or lines with only placeholders
LineSkip ==
    /\ pc = "lines" /\ i <= Len(lines)
    /\ IsSkipLine(lines[i])
    /\ skipped' = Append(skipped, lines[i])
    /\ i' = i + 1
    /\ UNCHANGED <<doc, backend, pc, content, callouts, code_blocks, md_links, inline_codes,
                   footnote_refs, yaml, lines, calls, extracted, restored, avars, mvars>>

\* lines[i] = before + translate_text_fragment(t), after the calls given
StoreLine(before, t, given) ==
    /\ lines' = [lines EXCEPT ![i] = before \o translate_text_fragment(t)]
    /\ calls' = calls \o given \o <<t>>

\* txt = fix_markdown_spacing(txt), then the translation of the result
SpaceAndStore(before, r) == StoreLine(before, fix_markdown_spacing(r.text), r.calls)

\* marker, txt = m.groups(), m the position of the colon
DefinitionLine(line, m) ==
    SpaceAndStore(SubSeq(line, 1, m) \o <<" ">>,
                  translate_bold_italic(Strip(SubSeq(line, m + 1, Len(line)))))

\* Footnote definition: only translate after colon
LineFootnoteDefinition ==
    /\ pc = "lines" /\ i <= Len(lines)
    /\ ~IsSkipLine(lines[i])
    /\ FootnoteDefinitionMarker(lines[i]) > 0
    /\ DefinitionLine(lines[i], FootnoteDefinitionMarker(lines[i]))
    /\ i' = i + 1
    /\ UNCHANGED <<doc, backend, pc, content, callouts, code_blocks, md_links, inline_codes,
                   footnote_refs, yaml, skipped, extracted, restored, avars, mvars>>

\* Otherwise, translate bold/italic, then the line
LineProse ==
    /\ pc = "lines" /\ i <= Len(lines)
    /\ ~IsSkipLine(lines[i])
    /\ FootnoteDefinitionMarker(lines[i]) = 0
    /\ SpaceAndStore(<<>>, translate_bold_italic(lines[i]))
    /\ i' = i + 1
    /\ UNCHANGED <<doc, backend, pc, content, callouts, code_blocks, md_links, inline_codes,
                   footnote_refs, yaml, skipped, extracted, restored, avars, mvars>>

\* content = '\n'.join(lines)
JoinLines ==
    /\ pc = "lines" /\ i > Len(lines)
    /\ content' = Join(lines)
    /\ pc' = "restore_yaml"
    /\ UNCHANGED <<doc, backend, callouts, code_blocks, md_links, inline_codes, footnote_refs,
                   yaml, lines, i, calls, skipped, extracted, restored, avars, mvars>>

\* 8. Restore everything in reverse order: if yaml: ...
RestoreYaml ==
    /\ pc = "restore_yaml"
    /\ content' = IF yaml # <<>> THEN Replace(content, YamlPlaceholder, yaml) ELSE content
    /\ restored' = Append(restored, "YAML")
    /\ pc' = "restore_callouts"
    /\ UNCHANGED <<doc, backend, callouts, code_blocks, md_links, inline_codes, footnote_refs,
                   yaml, lines, i, calls, skipped, extracted, avars, mvars>>

RestoreCallouts ==
    /\ pc = "restore_callouts"
    /\ content' = RestoreExact("CALLOUT", content, callouts, 1)
    /\ restored' = Append(restored, "CALLOUT")
    /\ pc' = "restore_code_blocks"
    /\ UNCHANGED <<doc, backend, callouts, code_blocks, md_links, inline_codes, footnote_refs,
                   yaml, lines, i, calls, skipped, extracted, avars, mvars>>

RestoreCodeBlocks ==
    /\ pc = "restore_code_blocks"
    /\ content' = RestoreExact("CODEBLOCK", content, code_blocks, 1)
    /\ restored' = Append(restored, "CODEBLOCK")
    /\ pc' = "restore_footnote_refs"
    /\ UNCHANGED <<doc, backend, callouts, code_blocks, md_links, inline_codes, footnote_refs,
                   yaml, lines, i, calls, skipped, extracted, avars, mvars>>

RestoreFootnoteRefs ==
    /\ pc = "restore_footnote_refs"
    /\ content' = restore_footnote_refs(content, footnote_refs)
    /\ restored' = Append(restored, "FOOTNOTE_REF")
    /\ pc' = "restore_links"
    /\ UNCHANGED <<doc, backend, callouts, code_blocks, md_links, inline_codes, footnote_refs,
                   yaml, lines, i, calls, skipped, extracted, avars, mvars>>

RestoreLinks ==
    /\ pc = "restore_links"
    /\ LET r == restore_md_images_and_links(content, md_links) IN
       /\ content' = r.text
       /\ calls' = calls \o r.calls
    /\ restored' = Append(restored, "MDLINK")
    /\ pc' = "restore_inline_code"
    /\ UNCHANGED <<doc, backend, callouts, code_blocks, md_links, inline_codes, footnote_refs,
                   yaml, lines, i, skipped, extracted, avars, mvars>>

\* Restore inline code LAST
RestoreInlineCode ==
    /\ pc = "restore_inline_code"
    /\ content' = restore_inline_code(content, inline_codes)
    /\ restored' = Append(restored, "INLINECODE")
    /\ pc' = "final_spacing"
    /\ UNCHANGED <<doc, backend, callouts, code_blocks, md_links, inline_codes, footnote_refs,
                   yaml, lines, i, calls, skipped, extracted, avars, mvars>>

\* Final cleanup for markdown spacing, and the return
FinalSpacing ==
    /\ pc = "final_spacing"
    /\ content' = fix_markdown_spacing(content)
    /\ pc' = "done"
    /\ UNCHANGED <<doc, backend, callouts, code_blocks, md_links, inline_codes, footnote_refs,
                   yaml, lines, i, calls, skipped, extracted, restored, avars, mvars>>

Next ==
    \/ ExtractCallouts \/ ExtractCodeBlocks \/ ExtractLinks \/ ExtractInlineCode
    \/ ExtractFootnoteRefs \/ ExtractYaml
    \/ LineSkip \/ LineFootnoteDefinition \/ LineProse \/ JoinLines
    \/ RestoreYaml \/ RestoreCallouts \/ RestoreCodeBlocks \/ RestoreFootnoteRefs
    \/ RestoreLinks \/ RestoreInlineCode \/ FinalSpacing

Spec == Init /\ [][Next]_vars

----------------------------------------------------------------------------
(* translate_text_fragment(text, target_lang), statement by statement *)

MaxTextLen == 3

TextChars == {" ", "\n", "x"}

RECURSIVE TextsOf(_)
TextsOf(n) ==
    IF n = 0 THEN {<<>>}
    ELSE LET shorter == TextsOf(n - 1) IN
         shorter \cup {Append(t, c) : t \in shorter, c \in TextChars}

ProcessIdle ==
    /\ doc = <<>> /\ backend = "identity" /\ pc = "off" /\ content = <<>>
    /\ callouts = <<>> /\ code_blocks = <<>> /\ md_links = <<>>
    /\ inline_codes = <<>> /\ footnote_refs = <<>> /\ yaml = <<>>
    /\ lines = <<>> /\ i = 0 /\ calls = <<>> /\ skipped = <<>>
    /\ extracted = <<>> /\ restored = <<>>

InitAdapter ==
    /\ a_text \in TextsOf(MaxTextLen)
    /\ a_pc = "entry"
    /\ a_translated = <<>> /\ a_ret = <<>>
    /\ a_backend_calls = 0 /\ a_sleeps = 0 /\ a_raised = FALSE
    /\ ProcessIdle /\ MainIdle

\* a try block that starts one statement late, leaving the construction of the
\* translator outside it
AdapterTryLate == {"translate", "sleep", "return"}

\* the statements inside try: ... except Exception
AdapterTry == {"construct", "translate", "sleep", "return"}

\* where control goes when the statement at position at raises
AdapterRaise(at) == IF at \in AdapterTry THEN "except" ELSE "escaped"

\* what translator.translate(text) may return: nothing, or some text
BackendResults(text) == {<<>>, <<"y">>, MapChars(text, TRUE), <<" ">> \o text}

\* if not text.strip(): return text
AdapterEntry ==
    /\ a_pc = "entry"
    /\ IF Strip(a_text) = <<>>
       THEN a_ret' = a_text /\ a_pc' = "returned"
       ELSE a_ret' = a_ret /\ a_pc' = "construct"
    /\ UNCHANGED <<a_text, a_translated, a_backend_calls, a_sleeps, a_raised, pvars, mvars>>

\* translator = GoogleTranslator(source='auto', target=target_lang)
AdapterConstruct ==
    /\ a_pc = "construct"
    /\ \/ a_pc' = "translate" /\ a_raised' = a_raised
       \/ a_pc' = AdapterRaise("construct") /\ a_raised' = TRUE
    /\ UNCHANGED <<a_text, a_translated, a_ret, a_backend_calls, a_sleeps, pvars, mvars>>

\* translated = translator.translate(text)
AdapterTranslate ==
    /\ a_pc = "translate"
    /\ a_backend_calls' = a_backend_calls + 1
    /\ \/ \E t \in BackendResults(a_text) :
            a_translated' = t /\ a_pc' = "sleep" /\ a_raised' = a_raised
       \/ a_translated' = a_translated /\ a_pc' = AdapterRaise("translate") /\ a_raised' = TRUE
    /\ UNCHANGED <<a_text, a_ret, a_sleeps, pvars, mvars>>

\* time.sleep(0.3)
AdapterSleep ==
    /\ a_pc = "sleep"
    /\ a_sleeps' = a_sleeps + 1
    /\ a_pc' = "return"
    /\ UNCHANGED <<a_text, a_translated, a_ret, a_backend_calls, a_raised, pvars, mvars>>

\* return translated if translated else text
AdapterReturn ==
    /\ a_pc = "return"
    /\ a_ret' = IF a_translated # <<>> THEN a_translated ELSE a_text
    /\ a_pc' = "returned"
    /\ UNCHANGED <<a_text, a_translated, a_backend_calls, a_sleeps, a_raised, pvars, mvars>>

\* except Exception as e: print(...); return text
AdapterExcept ==
    /\ a_pc = "except"
    /\ a_ret' = a_text
    /\ a_pc' = "returned"
    /\ UNCHANGED <<a_text, a_translated, a_backend_calls, a_sleeps, a_raised, pvars, mvars>>

NextAdapter ==
    \/ AdapterEntry \/ AdapterConstruct \/ AdapterTranslate
    \/ AdapterSleep \/ AdapterReturn \/ AdapterExcept

SpecAdapter == InitAdapter /\ [][NextAdapter]_vars

----------------------------------------------------------------------------
(* main(): the loop over the files found *)

MaxFiles == 3

RECURSIVE FileLists(_)
\* the lists of at most n distinct files that source_dir.glob may give
FileLists(n) ==
    IF n = 0 THEN {<<>>}
    ELSE LET shorter == FileLists(n - 1) IN
         shorter \cup {Append(fs, f) : fs \in {l \in shorter : Len(l) = n - 1},
                                       f \in 1..MaxFiles}

Distinct(fs) == \A j, k \in 1..Len(fs) : j # k => fs[j] # fs[k]

InitMain ==
    /\ files \in {fs \in FileLists(MaxFiles) : Distinct(fs)}
    /\ m_pc = "loop"
    /\ file_index = 0
    /\ attempted = <<>> /\ created = <<>> /\ written = <<>> /\ reported = <<>>
    /\ completed = FALSE
    /\ ProcessIdle /\ AdapterIdle

\* a try block that ends one statement early, leaving the write outside it
MainTryEarly == {"read", "process", "open"}

\* the statements inside try: ... except Exception of the loop body
MainTry == {"read", "process", "open", "write"}

\* where control goes when the statement at position at raises
MainRaise(at) == IF at \in MainTry THEN "except" ELSE "aborted"

\* for file_index, file_path in enumerate(files, 1): the next file, or the end
\* of the loop and print("\nAll translations completed!")
MainLoop ==
    /\ m_pc = "loop"
    /\ IF file_index < Len(files)
       THEN /\ file_index' = file_index + 1
            /\ attempted' = Append(attempted, files[file_index + 1])
            /\ m_pc' = "read"
            /\ completed' = completed
       ELSE /\ completed' = TRUE
            /\ m_pc' = "done"
            /\ UNCHANGED <<file_index, attempted>>
    /\ UNCHANGED <<files, created, written, reported, pvars, avars>>

\* with open(file_path, 'r', ...) as file: content = file.read()
MainRead ==
    /\ m_pc = "read"
    /\ m_pc' \in {"process", MainRaise("read")}
    /\ UNCHANGED <<files, file_index, attempted, created, written, reported, completed, pvars, avars>>

\* the escaping of backslashes around translated_content = process_file(content)
MainProcess ==
    /\ m_pc = "process"
    /\ m_pc' \in {"open", MainRaise("process")}
    /\ UNCHANGED <<files, file_index, attempted, created, written, reported, completed, pvars, avars>>

\* with open(target_file, 'w', encoding='utf-8') as file: the target is created, or
\* the open raises and nothing is created
MainOpen ==
    /\ m_pc = "open"
    /\ \/ created' = Append(created, files[file_index]) /\ m_pc' = "write"
       \/ created' = created /\ m_pc' = MainRaise("open")
    /\ UNCHANGED <<files, file_index, attempted, written, reported, completed, pvars, avars>>

\* file.write(translated_content) and print(f"Completed: ...")
MainWrite ==
    /\ m_pc = "write"
    /\ \/ written' = Append(written, files[file_index]) /\ m_pc' = "loop"
       \/ written' = written /\ m_pc' = MainRaise("write")
    /\ UNCHANGED <<files, file_index, attempted, created, reported, completed, pvars, avars>>

\* except Exception as e: print(f"Error processing ...")
MainExcept ==
    /\ m_pc = "except"
    /\ reported' = Append(reported, files[file_index])
    /\ m_pc' = "loop"
    /\ UNCHANGED <<files, file_index, attempted, created, written, completed, pvars, avars>>

NextMain == MainLoop \/ MainRead \/ MainProcess \/ MainOpen \/ MainWrite \/ MainExcept

\* the interpreter runs the next statement: main is one sequential thread
SpecMain == InitMain /\ [][NextMain]_vars /\ WF_vars(NextMain)

----------------------------------------------------------------------------
(* What the claims speak of *)

IndexedKinds == {"CALLOUT", "CODEBLOCK", "MDLINK", "INLINECODE", "FOOTNOTE_REF"}

\* the fragment table of a kind
Table(kind) ==
    CASE kind = "CALLOUT" -> callouts
      [] kind = "CODEBLOCK" -> code_blocks
      [] kind = "MDLINK" -> md_links
      [] kind = "INLINECODE" -> inline_codes
      [] kind = "FOOTNOTE_REF" -> footnote_refs

\* the token names extraction has put into the text
InsertedTokens ==
    UNION {{TokenName(kind, k - 1) : k \in 1..Len(Table(kind))} : kind \in IndexedKinds}
    \cup (IF yaml # <<>> THEN {KindName("YAML")} ELSE {})

\* the link as it stood in the document
OriginalLink(link) ==
    (IF link.type = "image" THEN <<"!">> ELSE <<>>)
    \o <<"[">> \o link.text \o <<"]", "(">> \o link.url \o <<")">>

RECURSIVE OriginalLinks(_, _)
OriginalLinks(text, k) ==
    IF k = 0 THEN text
    ELSE OriginalLinks(Replace(text, Placeholder("MDLINK", k - 1), OriginalLink(md_links[k])), k - 1)

\* the text of the document that a text of a later stage stands for: every
\* placeholder replaced by what it was put in for, the last stage first
Original(text) ==
    LET t1 == IF yaml # <<>> THEN Replace(text, YamlPlaceholder, yaml) ELSE text
        t2 == RestoreExact("FOOTNOTE_REF", t1, footnote_refs, 1)
        t3 == RestoreExact("INLINECODE", t2, inline_codes, 1)
        t4 == OriginalLinks(t3, Len(md_links))
        t5 == RestoreExact("CODEBLOCK", t4, code_blocks, 1)
    IN RestoreExact("CALLOUT", t5, callouts, 1)

Range(f) == {f[k] : k \in DOMAIN f}

\* the protected regions of the document: callouts, code fences, inline code,
\* URLs and the front matter
ProtectedRegions ==
    {Original(f) : f \in Range(callouts) \cup Range(code_blocks) \cup Range(inline_codes)
                         \cup {l.url : l \in Range(md_links)} \cup {yaml}} \ {<<>>}

Untouching == {"identity", "raise", "upper"}
Mangling == {"pad", "lower"}

----------------------------------------------------------------------------
(* The claims *)

\* C1: with a translation function that is the identity, or a backend that raises
\* on every call, process_file returns its argument, character for character.
RoundTripIdentity ==
    (pc = "done" /\ backend \in {"identity", "raise"}) => content = doc

\* C2: whatever the translation function, every protected region of the document
\* (callout, code fence, inline code, URL, front matter) stands in the returned text
\* as it stood in the document, and none was handed to translate_text_fragment.
ProtectedContentInvariance ==
    /\ pc = "done" => \A r \in ProtectedRegions : Contains(content, r)
    /\ \A k \in 1..Len(calls) : \A r \in ProtectedRegions : ~Contains(calls[k], r)

\* C3: with a translation function that leaves the tokens alone, no placeholder
\* that extraction inserted is left in the returned text.
PlaceholdersRestored ==
    (pc = "done" /\ backend \in Untouching) =>
        \A token \in InsertedTokens : ~Contains(content, Open \o token \o Close)

\* C5: after the extraction of footnote references a marker [^id] is left in the
\* text if and only if a colon follows it immediately, and no marker is ever handed
\* to translate_text_fragment.
FootnoteDiscrimination ==
    /\ pc = "extract_yaml" =>
          /\ \A k \in 1..Len(FindAll("footnote", content)) :
                StartsWithAt(content, FindAll("footnote", content)[k][2] + 1, <<":">>)
          /\ \A k \in 1..Len(footnote_refs) :
                ~Contains(content, Placeholder("FOOTNOTE_REF", k - 1) \o <<":">>)
    /\ \A k \in 1..Len(calls) : FindAll("footnote", calls[k]) = <<>>

\* the text with every placeholder token that extraction inserted taken out
WithoutTokens(text) ==
    LET none(kind) == [k \in 1..Len(Table(kind)) |-> <<>>]
        t1 == RestoreExact("CALLOUT", text, none("CALLOUT"), 1)
        t2 == RestoreExact("CODEBLOCK", t1, none("CODEBLOCK"), 1)
        t3 == RestoreExact("MDLINK", t2, none("MDLINK"), 1)
        t4 == RestoreExact("INLINECODE", t3, none("INLINECODE"), 1)
        t5 == RestoreExact("FOOTNOTE_REF", t4, none("FOOTNOTE_REF"), 1)
    IN Replace(t5, YamlPlaceholder, <<>>)

\* C6: a line the loop leaves alone, with no translation call, holds no prose: it is
\* blank or a placeholder token; in particular a line that starts with one
\* placeholder and ends with another but has prose between them is not left alone.
LineClassification ==
    \A k \in 1..Len(skipped) : Strip(WithoutTokens(skipped[k])) = <<>>

\* C8: the kinds are restored in exactly the reverse of the order in which they
\* were extracted.
RestorationOrder ==
    pc = "done" => restored = Reverse(extracted)

NestedExample == Chunks[15]

\* C9: for the line **b *i* t** the whole bold content is handed to
\* translate_text_fragment as one call and the nested italic text is not handed
\* over on its own; the line returned is still wrapped in ** with no space inside.
EmphasisNesting ==
    (pc = "done" /\ doc = NestedExample) =>
        /\ \E k \in 1..Len(calls) : calls[k] = BoldGroup(NestedExample, <<1, Len(NestedExample)>>)
        /\ ~\E k \in 1..Len(calls) : calls[k] = <<"i">>
        /\ StartsWith(content, Stars) /\ EndsWith(content, Stars)
        /\ ~IsSpace(content[3]) /\ ~IsSpace(content[Len(content) - 2])

\* a token of the returned text that the tolerant pattern of token matches and
\* that is not the token as extraction wrote it
MangledLeft(token) ==
    \E p \in 1..Len(content) :
        /\ TolerantEnd(token, content, p) > 0
        /\ SubSeq(content, p, TolerantEnd(token, content, p)) # Open \o token \o Close

\* C10: when the translation function pads the markers of a token with whitespace
\* or changes the case of its letters, restoration still replaces the token: no
\* such token of any kind is left in the returned text.
TolerantMatching ==
    (pc = "done" /\ backend \in Mangling) =>
        \A token \in InsertedTokens : ~MangledLeft(token)

\* C4: translate_text_fragment never lets an exception out; a blank text comes
\* back as it is with no backend call; when the backend raises the text comes back
\* as it is; the delay follows only a backend call that did not raise; a failed
\* call is not repeated.
AdapterContainment ==
    /\ a_pc # "escaped"
    /\ (a_pc = "returned" /\ Strip(a_text) = <<>>) => (a_ret = a_text /\ a_backend_calls = 0)
    /\ (a_pc = "returned" /\ a_raised) => a_ret = a_text
    /\ a_sleeps > 0 => (a_sleeps = 1 /\ a_backend_calls = 1 /\ ~a_raised)
    /\ a_backend_calls <= 1
    /\ (a_pc = "returned" /\ a_backend_calls = 1 /\ ~a_raised) => a_sleeps = 1

\* C4, its case: the backend call raised and the text came back unchanged, with no
\* delay and no second call.
AdapterFailureContained ==
    /\ a_pc = "returned" /\ a_raised /\ a_backend_calls = 1
    /\ a_ret = a_text /\ a_sleeps = 0

InList(f, fs) == \E k \in 1..Len(fs) : fs[k] = f

MainSafety ==
    /\ m_pc # "aborted"
    /\ attempted = SubSeq(files, 1, file_index)
    /\ \A k \in 1..Len(files) : ~(InList(files[k], written) /\ InList(files[k], reported))
    /\ \A k \in 1..Len(written) : InList(written[k], created)
    /\ completed =>
          /\ attempted = files
          /\ written = SelectSeq(files, LAMBDA f : ~InList(f, reported))
          /\ reported = SelectSeq(files, LAMBDA f : ~InList(f, written))

\* C7: main attempts every file once, in list order; a file whose read, processing
\* or write raises is reported and the later files are still attempted; exactly the
\* files that did not fail are written (file.write completed); and main reaches its
\* completion message.
PerFileIsolation == []MainSafety /\ <>completed

\* C7, its case: the run is complete, an earlier file failed and a later one was
\* written.
LaterFileWrittenAfterFailure ==
    /\ completed
    /\ \E j, k \in 1..Len(files) :
          j < k /\ InList(files[j], reported) /\ InList(files[k], written)

====
